---- MODULE Spec2Model ----
(***************************************************************************)
(* Project-Minify: the cross-project transfer of a Caido plugin.           *)
(*                                                                         *)
(* The frontend (App.vue) has two handlers: onDuplicateProjectClick        *)
(* (capture) and handleProjectChange (apply).  The backend (index.ts)      *)
(* holds the captured data in module-level variables.  Both handlers are   *)
(* async functions on the single JavaScript thread of the frontend: the    *)
(* code between two awaits runs atomically, and any other handler may run  *)
(* while one is suspended at an await.                                     *)
(*                                                                         *)
(* A handler instance is a record whose pc names the call it is suspended  *)
(* at.  One action is one resumption: the pending call takes effect in the *)
(* host or the backend, its result comes back, and the synchronous code    *)
(* after the await runs up to and including the issue of the next call.    *)
(***************************************************************************)
EXTENDS Integers, Sequences, FiniteSets, TLC

(***************************************************************************)
(* Bounds of the environment.                                              *)
(***************************************************************************)
\* clicks and project switches of the user in the "interleaved" scenario
MaxEvents == 4
\* host or backend calls that fail (throw, or return nothing)
MaxFailures == 1

(***************************************************************************)
(* Values.                                                                 *)
(***************************************************************************)
\* JavaScript's undefined, for string-valued fields (alias, collectionId,
\* name, request id)
Undefined == "undefined"
\* An optional value that is not a string: <<>> is undefined, <<v>> is v.
None == <<>>
Some(v) == <<v>>
IsDefined(o) == o # None
Get(o) == o[1]

Projects == {"A", "B"}

\* A log entry of a handler: a host/backend call it issued (res: how it
\* ended) or a toast it showed (op = "toast", res: the variant).
Ev(op, idx, res, arg) == [op |-> op, idx |-> idx, res |-> res, arg |-> arg]
Toast(variant, about, idx) == Ev("toast", idx, variant, [about |-> about])

(***************************************************************************)
(* The host's projects the model starts from.                              *)
(***************************************************************************)
EmptyProject ==
  [scopes |-> <<>>, filters |-> <<>>, sessions |-> <<>>,
   rpCollections |-> <<>>, mrCollections |-> <<>>, rules |-> <<>>,
   requests |-> <<>>]

Request(id, raw, tls, host, port) ==
  [id |-> id, raw |-> raw, tls |-> tls, host |-> host, port |-> port]

\* The project the user duplicates.  Rules: one with the runtime "sources"
\* field, one without it, and three whose collectionId is empty, dangling
\* and undefined.  Sessions: one whose request is on its active entry (an
\* earlier entry has another request), one in no collection whose request is
\* on a later entry, one never sent.  Replay collections and match/replace
\* collections have separate ids in the host: the id "old-2" is the id of
\* one of each.
SourceProject ==
  [scopes |-> <<[name |-> "scope-1"]>>,
   filters |-> <<[alias |-> "a", name |-> "f-a"],
                 [alias |-> Undefined, name |-> "f-none"]>>,
   sessions |->
     <<[id |-> "s-1", name |-> "one", collectionId |-> "old-2",
        active |-> "req-1", entries |-> <<"req-2", "req-1">>],
       [id |-> "s-2", name |-> Undefined, collectionId |-> Undefined,
        active |-> Undefined, entries |-> <<Undefined, "req-2">>],
       [id |-> "s-3", name |-> "three", collectionId |-> "rc-2",
        active |-> Undefined, entries |-> <<Undefined>>]>>,
   rpCollections |-> <<[id |-> "old-2", name |-> "X"],
                       [id |-> "rc-2", name |-> "Z"]>>,
   mrCollections |-> <<[id |-> "old-1", name |-> "X"],
                       [id |-> "old-2", name |-> "Y"]>>,
   rules |->
     <<[id |-> "r-1", name |-> "rule-1", isEnabled |-> TRUE, query |-> "q1",
        section |-> "sec1", collectionId |-> "old-1",
        hasSources |-> TRUE, sources |-> <<"INTERCEPT">>],
       [id |-> "r-2", name |-> "rule-2", isEnabled |-> FALSE, query |-> "q2",
        section |-> "sec2", collectionId |-> "old-2",
        hasSources |-> FALSE, sources |-> <<>>],
       [id |-> "r-3", name |-> "rule-3", isEnabled |-> TRUE, query |-> "q3",
        section |-> "sec3", collectionId |-> "",
        hasSources |-> TRUE, sources |-> <<>>],
       [id |-> "r-4", name |-> "rule-4", isEnabled |-> TRUE, query |-> "q4",
        section |-> "sec4", collectionId |-> "old-9",
        hasSources |-> TRUE, sources |-> <<>>],
       [id |-> "r-5", name |-> "rule-5", isEnabled |-> TRUE, query |-> "q5",
        section |-> "sec5", collectionId |-> Undefined,
        hasSources |-> TRUE, sources |-> <<>>]>>,
   requests |-> <<Request("req-1", <<71, 69, 84>>, TRUE, "a.test", 0),
                  Request("req-2", <<80, 255>>, FALSE, "b.test", 8080)>>]

\* The project the user switches to: it already holds a filter with alias
\* "a", two match/replace collections named "X" after one named "x", and a
\* replay collection named "X".
TargetProject ==
  [EmptyProject EXCEPT
     !.filters = <<[alias |-> "a", name |-> "f-a"]>>,
     !.mrCollections = <<[id |-> "tgt-0", name |-> "x"],
                         [id |-> "tgt-1", name |-> "X"],
                         [id |-> "tgt-2", name |-> "X"]>>,
     !.rpCollections = <<[id |-> "trc-1", name |-> "X"]>>]

\* A small project to duplicate: one match/replace collection with one rule.
SmallProject ==
  [EmptyProject EXCEPT
     !.mrCollections = <<[id |-> "old-1", name |-> "X"]>>,
     !.rules = <<[id |-> "r-1", name |-> "rule-1", isEnabled |-> TRUE,
                  query |-> "q1", section |-> "sec1", collectionId |-> "old-1",
                  hasSources |-> TRUE, sources |-> <<"INTERCEPT">>]>>]

\* A project to duplicate in which two collections of each kind have the
\* same name (the host identifies collections by id, not by name).
TwinProject ==
  [EmptyProject EXCEPT
     !.mrCollections = <<[id |-> "d-1", name |-> "Y"],
                         [id |-> "d-2", name |-> "Y"]>>,
     !.rules = <<[id |-> "r-1", name |-> "rule-1", isEnabled |-> TRUE,
                  query |-> "q1", section |-> "sec1", collectionId |-> "d-2",
                  hasSources |-> TRUE, sources |-> <<>>]>>,
     !.rpCollections = <<[id |-> "e-1", name |-> "Z"],
                         [id |-> "e-2", name |-> "Z"]>>]

\* What the model starts from: the projects of the host and what the user
\* may do.
\*   "transfer": one click and up to two project switches over the full
\*     projects, with up to MaxFailures failing calls.
\*   "interleaved": up to MaxEvents clicks and project switches, in any
\*     order and at any moment of the running handlers, over the small
\*     project, with no failing call.
\*   "reapply": two clicks and up to three project switches over the full
\*     projects, by a patient user who acts only when every handler has
\*     ended, with no failing call.
\*   "twins": as "reapply", over the project with collections of the same
\*     name and the empty project.
\* In all of them the user clicks again only once the previous capture has
\* ended.
Scenarios ==
  { [name |-> "transfer", maxClicks |-> 1, maxSwitches |-> 2, maxEvents |-> 3, maxFailures |-> MaxFailures,
     patient |-> FALSE,
     projects |-> [p \in Projects |-> IF p = "A" THEN SourceProject ELSE t]]
      : t \in {TargetProject, EmptyProject} }
  \cup
  { [name |-> "interleaved", maxClicks |-> MaxEvents, maxSwitches |-> MaxEvents, maxEvents |-> MaxEvents, maxFailures |-> 0,
     patient |-> FALSE,
     projects |-> [p \in Projects |-> IF p = "A" THEN SmallProject ELSE EmptyProject]] }
  \cup
  { [name |-> "reapply", maxClicks |-> 2, maxSwitches |-> 3, maxEvents |-> 5, maxFailures |-> 0,
     patient |-> TRUE,
     projects |-> [p \in Projects |-> IF p = "A" THEN SourceProject ELSE t]]
      : t \in {TargetProject, EmptyProject} }
  \cup
  { [name |-> "twins", maxClicks |-> 2, maxSwitches |-> 3, maxEvents |-> 5, maxFailures |-> 0,
     patient |-> TRUE,
     projects |-> [p \in Projects |-> IF p = "A" THEN TwinProject ELSE EmptyProject]] }

(***************************************************************************)
(* State.                                                                  *)
(***************************************************************************)
VARIABLES
  scenario,                \* the scenario chosen at the start (never changes)
  waitingforprojectchange, \* App.vue: the flag set by capture, cleared by apply
  store,                   \* index.ts: storedScopes .. storedReplayCollections
  currentProject,          \* host: the project that is open
  projects,                \* host: the entities of each project
  nextId,                  \* host: ids handed out so far
  events,                  \* "projectChanged" events sent, not yet delivered
  captures,                \* the onDuplicateProjectClick calls, in click order
  runs,                    \* the handleProjectChange calls, in delivery order
  clicks, switches, failures  \* environment budget used

vars == <<scenario, waitingforprojectchange, store, currentProject, projects, nextId,
          events, captures, runs, clicks, switches, failures>>

(***************************************************************************)
(* Backend (index.ts).                                                     *)
(***************************************************************************)
\* storedScopes .. storedReplayCollections start undefined
StoreInit ==
  [scopes |-> None, filters |-> None, sessions |-> None,
   matchReplace |-> None, replayCollections |-> None]

\* (mutant) the match/replace data of an earlier save is kept
prepareProjectTransfer_keepsRules(scopes, filters, sessions, matchReplace, replayCollections) ==
  [scopes |-> Some(scopes), filters |-> Some(filters),
   sessions |-> Some(sessions),
   matchReplace |-> IF IsDefined(store.matchReplace) THEN store.matchReplace
                    ELSE Some(matchReplace),
   replayCollections |-> Some(replayCollections)]

\* the new contents of the stored variables
prepareProjectTransfer(scopes, filters, sessions, matchReplace, replayCollections) ==
  [scopes |-> Some(scopes), filters |-> Some(filters),
   sessions |-> Some(sessions), matchReplace |-> Some(matchReplace),
   replayCollections |-> Some(replayCollections)]

\* (mutant) reading the stored variables clears them
StoreAfterLoad_cleared(st) ==
  [scopes |-> None, filters |-> None, sessions |-> None,
   matchReplace |-> None, replayCollections |-> None]

\* the stored variables after getStoredData: it assigns none of them
StoreAfterLoad(st) == st

getStoredData(st) ==
  [kind |-> "Ok",
   value |-> [scopes |-> st.scopes, filters |-> st.filters,
              sessions |-> st.sessions, matchReplace |-> st.matchReplace,
              replayCollections |-> st.replayCollections]]

\* `${tls ? "https" : "http"}://${host}${port ? `:${port}` : ""}`
UrlOf(tls, host, port) ==
  (IF tls THEN "https" ELSE "http") \o "://" \o host
     \o (IF port # 0 THEN ":" \o ToString(port) ELSE "")

\* sdk.requests.get(requestId) in project record p, and what is made of it
getSessionByIDWrapper(p, requestId) ==
  LET found == SelectSeq(p.requests, LAMBDA q : q.id = requestId)
  IN  IF found = <<>>
        THEN [kind |-> "Ok", value |-> None]
        ELSE [kind |-> "Ok",
              value |-> Some([rawBytes |-> found[1].raw,
                              url |-> UrlOf(found[1].tls, found[1].host,
                                            found[1].port)])]

\* new Uint8Array(rawBytesArray)
ToUint8Array(rawBytesArray) ==
  [j \in 1..Len(rawBytesArray) |-> rawBytesArray[j] % 256]

(***************************************************************************)
(* Capture: onDuplicateProjectClick (App.vue).                             *)
(***************************************************************************)
\* clickedIn: the project that was open at the click
NewCapture ==
  [pc |-> "getCurrentProject", scope |-> <<>>, filters |-> <<>>,
   sessions |-> <<>>, replayCollections |-> <<>>, collections |-> <<>>,
   rules |-> <<>>, sessionsData |-> <<>>, i |-> 1, requestId |-> Undefined,
   args |-> None, log |-> <<>>, clickedIn |-> Undefined]

\* session.name ?? String(session.id)
SessionNameOf(session) ==
  IF session.name = Undefined THEN session.id ELSE session.name

\* the first entry, in order, that has a request; Undefined when none has
RECURSIVE FirstEntryRequest(_)
FirstEntryRequest(entries) ==
  IF entries = <<>> THEN Undefined
  ELSE IF Head(entries) # Undefined THEN Head(entries)
  ELSE FirstEntryRequest(Tail(entries))

\* (mutant) the entries are looked at before the active entry
RequestIdOf_entriesFirst(replaySession) ==
  IF FirstEntryRequest(replaySession.entries) # Undefined
    THEN FirstEntryRequest(replaySession.entries)
    ELSE replaySession.active

\* replaySession.activeEntry?.request?.id, then the entries
RequestIdOf(replaySession) ==
  IF replaySession.active # Undefined THEN replaySession.active
  ELSE FirstEntryRequest(replaySession.entries)

\* collections.map(c => ({ id: c.id, name: c.name }))
CollectionData(cs) == [j \in 1..Len(cs) |-> [id |-> cs[j].id, name |-> cs[j].name]]

\* the object stored for one rule; sources falls back to []
RuleData(r) ==
  [id |-> r.id, name |-> r.name, isEnabled |-> r.isEnabled, query |-> r.query,
   section |-> r.section, collectionId |-> r.collectionId,
   sources |-> IF r.hasSources THEN r.sources ELSE <<>>]

MatchReplaceData(collections, rules) ==
  [collections |-> CollectionData(collections),
   rules |-> [j \in 1..Len(rules) |-> RuleData(rules[j])]]

\* The flag as the capture leaves it when it issues the save.
ArmOnSave(flag) == TRUE

\* After the sessions loop: build the data and issue prepareProjectTransfer.
CapFinish(c) ==
  [c EXCEPT !.pc = "prepareProjectTransfer",
            !.args = Some([scopes |-> c.scope, filters |-> c.filters,
                           sessions |-> c.sessionsData,
                           matchReplace |-> MatchReplaceData(c.collections, c.rules),
                           replayCollections |-> CollectionData(c.replayCollections)])]

\* The head of the sessions loop: the next session's GraphQL query, or the end.
CapLoop(c) ==
  IF c.i <= Len(c.sessions) THEN [c EXCEPT !.pc = "graphql"] ELSE CapFinish(c)

\* `continue`, or the end of the loop body
CapContinue(c, entry) ==
  CapLoop([c EXCEPT !.i = @ + 1, !.log = Append(@, entry)])

\* the catch of the outer try
CapCatch(c, op) ==
  [c EXCEPT !.pc = "done",
            !.log = @ \o <<Ev(op, 0, "throw", [about |-> "call"]),
                           Toast("error", "Error preparing project transfer", 0)>>]

\* The flag after a resumption that left capture c2 (from c1).
FlagAfterCapture(c1, c2) ==
  IF c1.pc # "prepareProjectTransfer" /\ c2.pc = "prepareProjectTransfer"
    THEN ArmOnSave(waitingforprojectchange)
    ELSE waitingforprojectchange

Fail(ok) == IF ok THEN failures' = failures
            ELSE failures < scenario.maxFailures /\ failures' = failures + 1

\* no handler is running and no event is waiting to be delivered
Idle ==
  /\ events = <<>>
  /\ \A k \in DOMAIN captures : captures[k].pc = "done"
  /\ \A n \in DOMAIN runs :
       runs[n].pc \in {"done", "caught", "exited", "rejected", "returned"}

\* the click: runs to the first await
Click ==
  /\ clicks < scenario.maxClicks
  /\ clicks + switches < scenario.maxEvents
  /\ scenario.patient => Idle
  /\ \A k \in DOMAIN captures : captures[k].pc = "done"
  /\ clicks' = clicks + 1
  /\ captures' = Append(captures, [NewCapture EXCEPT !.clickedIn = currentProject])
  /\ UNCHANGED <<scenario, waitingforprojectchange, store, currentProject, projects,
                 nextId, events, runs, switches, failures>>

CapGetCurrentProject(k) ==
  /\ captures[k].pc = "getCurrentProject"
  /\ \E res \in {"Ok", "undefined", "Error"} :
       /\ Fail(res = "Ok")
       /\ captures' = [captures EXCEPT ![k] =
            IF res = "Ok"
              THEN [@ EXCEPT !.pc = "scopes.getScopes",
                             !.log = Append(@, Ev("getCurrentProject", 0, "Ok",
                                                  [project |-> currentProject]))]
              ELSE [@ EXCEPT !.pc = "done",
                             !.log = @ \o <<Ev("getCurrentProject", 0, res,
                                               [project |-> Undefined]),
                                            Toast("error", "current project", 0)>>]]
  /\ UNCHANGED <<scenario, waitingforprojectchange, store, currentProject, projects,
                 nextId, events, runs, clicks, switches>>

CapGetScopes(k) ==
  /\ captures[k].pc = "scopes.getScopes"
  /\ \E ok \in BOOLEAN :
       /\ Fail(ok)
       /\ captures' = [captures EXCEPT ![k] =
            IF ok THEN [@ EXCEPT !.pc = "filters.getAll",
                                 !.scope = projects[currentProject].scopes,
                                 !.log = Append(@, Ev("scopes.getScopes", 0, "ok",
                                                      [project |-> currentProject]))]
                  ELSE CapCatch(@, "scopes.getScopes")]
  /\ UNCHANGED <<scenario, waitingforprojectchange, store, currentProject, projects,
                 nextId, events, runs, clicks, switches>>

CapFiltersGetAll(k) ==
  /\ captures[k].pc = "filters.getAll"
  /\ \E ok \in BOOLEAN :
       /\ Fail(ok)
       /\ captures' = [captures EXCEPT ![k] =
            IF ok THEN [@ EXCEPT !.pc = "replay.getSessions",
                                 !.filters = projects[currentProject].filters,
                                 !.log = Append(@, Ev("filters.getAll", 0, "ok",
                                                      [project |-> currentProject]))]
                  ELSE CapCatch(@, "filters.getAll")]
  /\ UNCHANGED <<scenario, waitingforprojectchange, store, currentProject, projects,
                 nextId, events, runs, clicks, switches>>

\* getSessions resumes; replay.getCollections, matchReplace.getCollections
\* and getRules are read synchronously right after it
CapGetSessions(k) ==
  /\ captures[k].pc = "replay.getSessions"
  /\ \E ok \in BOOLEAN :
       /\ Fail(ok)
       /\ LET c1 == captures[k]
              p  == projects[currentProject]
              c2 == IF ok
                      THEN CapLoop([c1 EXCEPT
                             !.sessions = p.sessions,
                             !.replayCollections = p.rpCollections,
                             !.collections = p.mrCollections,
                             !.rules = p.rules,
                             !.i = 1,
                             !.log = Append(@, Ev("replay.getSessions", 0, "ok",
                                                  [project |-> currentProject]))])
                      ELSE CapCatch(c1, "replay.getSessions")
          IN  /\ captures' = [captures EXCEPT ![k] = c2]
              /\ waitingforprojectchange' = FlagAfterCapture(c1, c2)
  /\ UNCHANGED <<scenario, store, currentProject, projects, nextId, events, runs,
                 clicks, switches>>

\* sdk.graphql.activeReplayEntryBySession({ sessionId }) resumes
CapGraphql(k) ==
  /\ captures[k].pc = "graphql"
  /\ \E ok \in BOOLEAN :
       /\ Fail(ok)
       /\ LET c1 == captures[k]
              session == c1.sessions[c1.i]
              found == SelectSeq(projects[currentProject].sessions,
                                 LAMBDA s : s.id = session.id)
              call(res) == Ev("graphql", c1.i, res, [sessionId |-> session.id])
              c1a(res) == [c1 EXCEPT !.log = Append(@, call(res))]
              c2 == IF ~ok
                      THEN CapContinue(c1a("throw"), Toast("error", "querying session", c1.i))
                    ELSE IF found = <<>>
                      THEN CapContinue(c1a("null"), Toast("warning", "not found in GraphQL", c1.i))
                    ELSE IF found[1].active = Undefined /\ found[1].entries = <<>>
                      THEN CapContinue(c1a("ok"), Toast("warning", "no entries", c1.i))
                    ELSE IF RequestIdOf(found[1]) = Undefined
                      THEN CapContinue(c1a("ok"), Toast("warning", "no request", c1.i))
                    ELSE [c1a("ok") EXCEPT !.pc = "getSessionByIDWrapper",
                                           !.requestId = RequestIdOf(found[1])]
          IN  /\ captures' = [captures EXCEPT ![k] = c2]
              /\ waitingforprojectchange' = FlagAfterCapture(c1, c2)
  /\ UNCHANGED <<scenario, store, currentProject, projects, nextId, events, runs,
                 clicks, switches>>

\* sdk.backend.getSessionByIDWrapper(requestId) resumes
CapGetSessionByID(k) ==
  /\ captures[k].pc = "getSessionByIDWrapper"
  /\ \E ok \in BOOLEAN :
       /\ Fail(ok)
       /\ LET c1 == captures[k]
              session == c1.sessions[c1.i]
              sessionResult == getSessionByIDWrapper(projects[currentProject], c1.requestId)
              call(res) == Ev("getSessionByIDWrapper", c1.i, res, [requestId |-> c1.requestId])
              c1a(res) == [c1 EXCEPT !.log = Append(@, call(res))]
              c2 == IF ~ok
                      THEN CapContinue(c1a("Error"), Toast("error", "getting request", c1.i))
                    ELSE IF IsDefined(sessionResult.value)
                      THEN CapContinue(
                             [c1a("Ok") EXCEPT !.sessionsData = Append(@,
                                [rawBytes |-> Get(sessionResult.value).rawBytes,
                                 url |-> Get(sessionResult.value).url,
                                 name |-> SessionNameOf(session),
                                 collectionId |-> session.collectionId])],
                             Ev("push", c1.i, "ok", [requestId |-> c1.requestId]))
                    ELSE CapContinue(c1a("Ok"), Toast("warning", "request data undefined", c1.i))
          IN  /\ captures' = [captures EXCEPT ![k] = c2]
              /\ waitingforprojectchange' = FlagAfterCapture(c1, c2)
  /\ UNCHANGED <<scenario, store, currentProject, projects, nextId, events, runs,
                 clicks, switches>>

\* sdk.backend.prepareProjectTransfer(...) resumes: the backend has stored
\* the data, or the call failed
CapPrepare(k) ==
  /\ captures[k].pc = "prepareProjectTransfer"
  /\ \E ok \in BOOLEAN :
       /\ Fail(ok)
       /\ LET c1 == captures[k]
              a  == Get(c1.args)
          IN  /\ store' = IF ok
                            THEN prepareProjectTransfer(a.scopes, a.filters, a.sessions,
                                                        a.matchReplace, a.replayCollections)
                            ELSE store
              /\ captures' = [captures EXCEPT ![k] =
                   [c1 EXCEPT !.pc = "done",
                              !.log = @ \o
                                <<Ev("prepareProjectTransfer", 0, IF ok THEN "Ok" ELSE "throw",
                                     [about |-> "save"]),
                                  IF ok THEN Toast("success", "captured", 0)
                                        ELSE Toast("error", "Error preparing project transfer", 0)>>]]
  /\ UNCHANGED <<scenario, waitingforprojectchange, currentProject, projects, nextId,
                 events, runs, clicks, switches>>

(***************************************************************************)
(* Host: the user opens another project; the backend's onProjectChange     *)
(* callback (index.ts) sends "projectChanged" with the project's name.     *)
(***************************************************************************)
SwitchProject ==
  /\ switches < scenario.maxSwitches
  /\ clicks + switches < scenario.maxEvents
  /\ scenario.patient => Idle
  /\ switches' = switches + 1
  /\ \E p \in Projects \ {currentProject} :
       /\ currentProject' = p
       /\ events' = Append(events, p)
  /\ UNCHANGED <<scenario, waitingforprojectchange, store, projects, nextId, captures,
                 runs, clicks, failures>>

(***************************************************************************)
(* Apply: handleProjectChange (App.vue).                                   *)
(***************************************************************************)
\* new Map<string, string>(), set and get (undefined when absent)
EmptyMap == [x \in {} |-> Undefined]
MapSet(m, k, v) == (k :> v) @@ m
MapGet(m, k) == IF k \in DOMAIN m THEN m[k] ELSE Undefined

\* (mutant) the map is set whatever the create call gave
MapAfterCreate_always(map, source, res, id) == MapSet(map, source, id)

\* The map after a create-collection call: set only when the call returned
\* a collection with an id.
MapAfterCreate(map, source, res, id) ==
  IF res = "ok" THEN MapSet(map, source, id) ELSE map

\* (mutant) a session whose rename failed is removed again
SessionsAfterRename_rollback(ss, sid, name, ok) ==
  IF ok THEN [j \in 1..Len(ss) |->
                IF ss[j].id = sid THEN [ss[j] EXCEPT !.name = name] ELSE ss[j]]
        ELSE SelectSeq(ss, LAMBDA x : x.id # sid)

\* The sessions of the open project after renameSession(sid, name): renamed,
\* or, when the call threw, as they were (the catch issues no call).
SessionsAfterRename(ss, sid, name, ok) ==
  IF ok THEN [j \in 1..Len(ss) |->
                IF ss[j].id = sid THEN [ss[j] EXCEPT !.name = name] ELSE ss[j]]
        ELSE ss

\* how many captures have set the flag so far
Arms == Cardinality({k \in DOMAIN captures : IsDefined(captures[k].args)})

\* (mutant) the flag is left as it is at entry
DisarmAtEntry_kept(flag) == flag

\* The flag as handleProjectChange leaves it before its first await.
DisarmAtEntry(flag) == FALSE

\* A call of handleProjectChange that found the flag set; arm: which arming
\* it consumed.
NewRun(projectName) ==
  [pc |-> "getStoredData", name |-> projectName, arm |-> Arms,
   data |-> StoreInit, currentFilters |-> <<>>, currentCollections |-> <<>>,
   currentReplayCollections |-> <<>>, phase |-> "start", i |-> 1,
   counts |-> [scopes |-> 0, filters |-> 0, mrRules |-> 0, replaySessions |-> 0],
   mrMap |-> EmptyMap, rpMap |-> EmptyMap, sid |-> Undefined,
   log |-> <<Toast("info", "Project changed", 0)>>]

\* (mutant) a call that found the flag clear goes on to read the store
ReturnedRun_loads(projectName) ==
  [pc |-> "getStoredData", name |-> projectName, arm |-> 0,
   data |-> StoreInit, currentFilters |-> <<>>, currentCollections |-> <<>>,
   currentReplayCollections |-> <<>>, phase |-> "start", i |-> 1,
   counts |-> [scopes |-> 0, filters |-> 0, mrRules |-> 0, replaySessions |-> 0],
   mrMap |-> EmptyMap, rpMap |-> EmptyMap, sid |-> Undefined,
   log |-> <<>>]

\* A call of handleProjectChange that found the flag clear and returned.
ReturnedRun(projectName) ==
  [NewRun(projectName) EXCEPT !.pc = "returned", !.arm = 0, !.log = <<>>]

\* (mutant) no filter is ever taken as existing
FilterExists_never(filter, currentFilters) == FALSE

\* filter.alias !== undefined && currentFilters.some(f => f.alias === filter.alias)
FilterExists(filter, currentFilters) ==
  /\ filter.alias # Undefined
  /\ \E j \in DOMAIN currentFilters : currentFilters[j].alias = filter.alias

\* (mutant) the last match instead of the first
FindByName_last(current, name) ==
  LET hits == SelectSeq(current, LAMBDA c : c.name = name)
  IN  IF hits = <<>> THEN None ELSE Some(hits[Len(hits)])

\* current.find(c => c.name === name): the first match, or undefined
FindByName(current, name) ==
  LET hits == SelectSeq(current, LAMBDA c : c.name = name)
  IN  IF hits = <<>> THEN None ELSE Some(hits[1])

\* (mutant) an unmapped collectionId is passed on as it is
ResolveRule_fallback(map, collectionId) ==
  IF collectionId \in DOMAIN map THEN map[collectionId] ELSE collectionId

\* rule.collectionId !== undefined && rule.collectionId !== "" ? map.get(..) : undefined
ResolveRule(map, collectionId) ==
  IF collectionId # Undefined /\ collectionId # ""
    THEN MapGet(map, collectionId) ELSE Undefined

\* (mutant) a session in no collection is put in the first mapped one
ResolveSession_firstMapped(map, collectionId) ==
  IF collectionId # Undefined THEN MapGet(map, collectionId)
  ELSE IF DOMAIN map # {} THEN map[CHOOSE k \in DOMAIN map : TRUE]
  ELSE Undefined

\* sessionData.collectionId !== undefined ? map.get(..) : undefined
ResolveSession(map, collectionId) ==
  IF collectionId # Undefined THEN MapGet(map, collectionId) ELSE Undefined

\* (mutant) one map for both kinds of collection
SessionMap_shared(r) == r.mrMap @@ r.rpMap

\* the collectionIdMap the sessions loop looks in: the one declared in the
\* replay block
SessionMap(r) == r.rpMap

\* the options object passed to sdk.matchReplace.createRule
CreateRuleOptions(rule, newCollectionId) ==
  [collectionId |-> newCollectionId, name |-> rule.name, query |-> rule.query,
   section |-> rule.section, sources |-> <<>>]

\* the arguments passed to sdk.backend.createSessionWrapper
CreateSessionArgs(sessionData, newCollectionId) ==
  [rawBytes |-> sessionData.rawBytes, url |-> sessionData.url,
   collectionId |-> newCollectionId]

\* the order of the steps inside the try block
AfterScopes == "filters"
AfterFilters == "mrCollections"
AfterMrCollections == "mrRules"
AfterMrRules == "replay"
\* (mutant) the sessions loop before the replay collections
ReplayFirst_sessions == "sessions"
ReplayFirst == "rpRead"
AfterRpCollections == "sessions"
AfterSessions == "summary"

Enter(r, phase) == [r EXCEPT !.phase = phase, !.i = 1]

\* how far a run is: the rank of its phase in the order of the code
PhaseRank(phase) ==
  CASE phase = "start" -> 0
    [] phase = "scopes" -> 1
    [] phase = "filters" -> 2
    [] phase = "mrCollections" -> 3
    [] phase = "mrRules" -> 4
    [] phase = "replay" -> 5
    [] phase = "rpRead" -> 6
    [] phase = "rpCollections" -> 7
    [] phase = "sessions" -> 8
    [] phase = "summary" -> 9

\* The synchronous code of the try block from the head of the current loop
\* to the next await (pc names the call issued) or to the end (pc = "done").
\* A run ends with pc = "done" (the summary was shown), "caught" (the outer
\* catch), "exited" (no current project), "rejected" (an error escaped) or
\* "returned" (the flag was clear).
RECURSIVE Advance(_)
Advance(r) ==
  LET next(entries) == Advance([r EXCEPT !.i = @ + 1, !.log = @ \o entries])
  IN
  CASE r.phase = "scopes" ->
         IF IsDefined(r.data.scopes) /\ r.i <= Len(Get(r.data.scopes))
           THEN [r EXCEPT !.pc = "scopes.createScope"]
           ELSE Advance(Enter(r, AfterScopes))
    [] r.phase = "filters" ->
         IF IsDefined(r.data.filters) /\ r.i <= Len(Get(r.data.filters))
           THEN IF FilterExists(Get(r.data.filters)[r.i], r.currentFilters)
                  THEN next(<<>>)
                  ELSE [r EXCEPT !.pc = "filters.create"]
           ELSE Advance(Enter(r, AfterFilters))
    [] r.phase = "mrCollections" ->
         IF ~IsDefined(r.data.matchReplace)
           THEN Advance(Enter(r, AfterMrRules))
         ELSE IF r.i <= Len(Get(r.data.matchReplace).collections)
           THEN LET collectionData == Get(r.data.matchReplace).collections[r.i]
                    existingCollection == FindByName(r.currentCollections, collectionData.name)
                IN  IF IsDefined(existingCollection)
                      THEN Advance([r EXCEPT
                             !.mrMap = MapSet(@, collectionData.id, Get(existingCollection).id),
                             !.i = @ + 1,
                             !.log = Append(@, Ev("mr.reuse", r.i, "ok",
                                        [source |-> collectionData.id,
                                         id |-> Get(existingCollection).id]))])
                      ELSE [r EXCEPT !.pc = "matchReplace.createCollection"]
           ELSE Advance(Enter(r, AfterMrCollections))
    [] r.phase = "mrRules" ->
         IF r.i <= Len(Get(r.data.matchReplace).rules)
           THEN LET rule == Get(r.data.matchReplace).rules[r.i]
                IN  IF ResolveRule(r.mrMap, rule.collectionId) = Undefined
                      THEN next(<<Toast("warning", "Skipping rule", r.i)>>)
                      ELSE [r EXCEPT !.pc = "matchReplace.createRule"]
           ELSE Advance(Enter(r, AfterMrRules))
    [] r.phase = "replay" ->
         IF ~IsDefined(r.data.sessions)
           THEN Advance(Enter(r, AfterSessions))
           ELSE Advance(Enter(r, ReplayFirst))
    [] r.phase = "rpRead" ->
         IF IsDefined(r.data.replayCollections)
           THEN [r EXCEPT !.pc = "replay.getCollections"]
           ELSE Advance(Enter(r, AfterRpCollections))
    [] r.phase = "rpCollections" ->
         IF r.i <= Len(Get(r.data.replayCollections))
           THEN LET collectionData == Get(r.data.replayCollections)[r.i]
                    existingCollection == FindByName(r.currentReplayCollections, collectionData.name)
                IN  IF IsDefined(existingCollection)
                      THEN Advance([r EXCEPT
                             !.rpMap = MapSet(@, collectionData.id, Get(existingCollection).id),
                             !.i = @ + 1,
                             !.log = Append(@, Ev("rp.reuse", r.i, "ok",
                                        [source |-> collectionData.id,
                                         id |-> Get(existingCollection).id]))])
                      ELSE [r EXCEPT !.pc = "replay.createCollection"]
           ELSE Advance(Enter(r, AfterRpCollections))
    [] r.phase = "sessions" ->
         IF r.i <= Len(Get(r.data.sessions))
           THEN [r EXCEPT !.pc = "createSessionWrapper"]
           ELSE Advance(Enter(r, AfterSessions))
    [] r.phase = "summary" ->
         [r EXCEPT !.pc = "done",
                   !.log = @ \o <<Toast("success", "Transfer complete", 0),
                                  Ev("counts", 0, "info", r.counts)>>]

\* `continue`, or the end of a loop body: on to the next item
Continue(r, entries) ==
  Advance([r EXCEPT !.i = @ + 1, !.log = @ \o entries])

\* the catch of the outer try: the run ends here
OuterCatch(r, entries) ==
  [r EXCEPT !.pc = "caught",
            !.log = @ \o entries \o <<Toast("error", "Error applying scopes/filters", 0)>>]

\* an error nothing catches: the promise of handleProjectChange rejects
Escape(r, entries) ==
  [r EXCEPT !.pc = "rejected", !.log = @ \o entries]

NewId == "new-" \o ToString(nextId + 1)

\* the "projectChanged" listener: handleProjectChange up to its first await
HandleProjectChange ==
  /\ events # <<>>
  /\ events' = Tail(events)
  /\ IF waitingforprojectchange = FALSE
       THEN /\ runs' = Append(runs, ReturnedRun(Head(events)))
            /\ UNCHANGED waitingforprojectchange
       ELSE /\ waitingforprojectchange' = DisarmAtEntry(waitingforprojectchange)
            /\ runs' = Append(runs, NewRun(Head(events)))
  /\ UNCHANGED <<scenario, store, currentProject, projects, nextId, captures, clicks,
                 switches, failures>>

\* sdk.backend.getStoredData() resumes
RunGetStoredData(n) ==
  /\ runs[n].pc = "getStoredData"
  /\ LET storedDataResult == getStoredData(store)
     IN  runs' = [runs EXCEPT ![n] =
           [@ EXCEPT !.pc = "getCurrentProject",
                     !.data = storedDataResult.value,
                     !.log = Append(@, Ev("getStoredData", 0, storedDataResult.kind,
                                          [about |-> "load"]))]]
  /\ store' = StoreAfterLoad(store)
  /\ UNCHANGED <<scenario, waitingforprojectchange, currentProject, projects,
                 nextId, events, captures, clicks, switches, failures>>

\* sdk.backend.getCurrentProject() resumes
RunGetCurrentProject(n) ==
  /\ runs[n].pc = "getCurrentProject"
  /\ \E res \in {"Ok", "undefined", "Error"} :
       /\ Fail(res = "Ok")
       /\ runs' = [runs EXCEPT ![n] =
            IF res = "Ok"
              THEN [@ EXCEPT !.pc = "filters.getAll",
                             !.log = Append(@, Ev("getCurrentProject", 0, "Ok",
                                                  [project |-> currentProject]))]
              ELSE [@ EXCEPT !.pc = "exited",
                             !.log = @ \o <<Ev("getCurrentProject", 0, res,
                                               [project |-> Undefined]),
                                            Toast("error", "current project", 0)>>]]
  /\ UNCHANGED <<scenario, waitingforprojectchange, store, currentProject, projects,
                 nextId, events, captures, clicks, switches>>

\* sdk.filters.getAll() resumes, then sdk.matchReplace.getCollections() is
\* read; both are outside the try block
RunFiltersGetAll(n) ==
  /\ runs[n].pc = "filters.getAll"
  /\ \E res \in {"ok", "getAll throws", "getCollections throws"} :
       /\ Fail(res = "ok")
       /\ LET r == runs[n]
              p == projects[currentProject]
          IN  runs' = [runs EXCEPT ![n] =
                CASE res = "ok" ->
                       Advance([r EXCEPT
                         !.currentFilters = p.filters,
                         !.currentCollections = p.mrCollections,
                         !.phase = "scopes", !.i = 1,
                         !.log = @ \o <<Ev("filters.getAll", 0, "ok",
                                           [project |-> currentProject]),
                                        Ev("matchReplace.getCollections", 0, "ok",
                                           [project |-> currentProject])>>])
                  [] res = "getAll throws" ->
                       Escape(r, <<Ev("filters.getAll", 0, "throw",
                                      [project |-> currentProject])>>)
                  [] res = "getCollections throws" ->
                       Escape(r, <<Ev("filters.getAll", 0, "ok",
                                      [project |-> currentProject]),
                                   Ev("matchReplace.getCollections", 0, "throw",
                                      [project |-> currentProject])>>)]
  /\ UNCHANGED <<scenario, waitingforprojectchange, store, currentProject, projects,
                 nextId, events, captures, clicks, switches>>

\* sdk.scopes.createScope(scope) resumes
RunCreateScope(n) ==
  /\ runs[n].pc = "scopes.createScope"
  /\ \E ok \in BOOLEAN :
       /\ Fail(ok)
       /\ LET r == runs[n]
              scope == Get(r.data.scopes)[r.i]
              call(res) == Ev("scopes.createScope", r.i, res, scope)
          IN  /\ projects' = IF ok
                               THEN [projects EXCEPT ![currentProject].scopes = Append(@, scope)]
                               ELSE projects
              /\ runs' = [runs EXCEPT ![n] =
                   IF ok THEN Continue([r EXCEPT !.counts.scopes = @ + 1], <<call("ok")>>)
                         ELSE OuterCatch(r, <<call("throw")>>)]
  /\ UNCHANGED <<scenario, waitingforprojectchange, store, currentProject, nextId,
                 events, captures, clicks, switches>>

\* sdk.filters.create(filter) resumes
RunCreateFilter(n) ==
  /\ runs[n].pc = "filters.create"
  /\ \E ok \in BOOLEAN :
       /\ Fail(ok)
       /\ LET r == runs[n]
              filter == Get(r.data.filters)[r.i]
              call(res) == Ev("filters.create", r.i, res, filter)
          IN  /\ projects' = IF ok
                               THEN [projects EXCEPT ![currentProject].filters = Append(@, filter)]
                               ELSE projects
              /\ runs' = [runs EXCEPT ![n] =
                   IF ok THEN Continue([r EXCEPT !.counts.filters = @ + 1], <<call("ok")>>)
                         ELSE OuterCatch(r, <<call("throw")>>)]
  /\ UNCHANGED <<scenario, waitingforprojectchange, store, currentProject, nextId,
                 events, captures, clicks, switches>>

\* sdk.matchReplace.createCollection({ name }) resumes
RunMrCreateCollection(n) ==
  /\ runs[n].pc = "matchReplace.createCollection"
  /\ \E res \in {"ok", "undefined", "throw"} :
       /\ Fail(res = "ok")
       /\ LET r == runs[n]
              collectionData == Get(r.data.matchReplace).collections[r.i]
              call == Ev("matchReplace.createCollection", r.i, res,
                         [source |-> collectionData.id, name |-> collectionData.name,
                          id |-> IF res = "ok" THEN NewId ELSE Undefined])
          IN  /\ projects' = IF res = "ok"
                               THEN [projects EXCEPT ![currentProject].mrCollections =
                                       Append(@, [id |-> NewId, name |-> collectionData.name])]
                               ELSE projects
              /\ nextId' = IF res = "ok" THEN nextId + 1 ELSE nextId
              /\ runs' = [runs EXCEPT ![n] =
                   Continue([r EXCEPT !.mrMap = MapAfterCreate(@, collectionData.id, res, call.arg.id)],
                            IF res = "ok"
                              THEN <<call>>
                              ELSE <<call, Toast("warning", "creating match replace collection", r.i)>>)]
  /\ UNCHANGED <<scenario, waitingforprojectchange, store, currentProject, events,
                 captures, clicks, switches>>

\* sdk.matchReplace.createRule({...}) resumes
RunMrCreateRule(n) ==
  /\ runs[n].pc = "matchReplace.createRule"
  /\ \E ok \in BOOLEAN :
       /\ Fail(ok)
       /\ LET r == runs[n]
              rule == Get(r.data.matchReplace).rules[r.i]
              options == CreateRuleOptions(rule, ResolveRule(r.mrMap, rule.collectionId))
              call(res) == Ev("matchReplace.createRule", r.i, res, options)
          IN  /\ projects' = IF ok
                               THEN [projects EXCEPT ![currentProject].rules =
                                       Append(@, [id |-> NewId, name |-> options.name,
                                                  isEnabled |-> FALSE, query |-> options.query,
                                                  section |-> options.section,
                                                  collectionId |-> options.collectionId,
                                                  hasSources |-> TRUE,
                                                  sources |-> options.sources])]
                               ELSE projects
              /\ nextId' = IF ok THEN nextId + 1 ELSE nextId
              /\ runs' = [runs EXCEPT ![n] =
                   IF ok THEN Continue([r EXCEPT !.counts.mrRules = @ + 1], <<call("ok")>>)
                         ELSE Continue(r, <<call("throw"), Toast("warning", "creating rule", r.i)>>)]
  /\ UNCHANGED <<scenario, waitingforprojectchange, store, currentProject, events,
                 captures, clicks, switches>>

\* sdk.replay.getCollections(), read synchronously at the head of the replay
\* part, inside the try block
RunReplayGetCollections(n) ==
  /\ runs[n].pc = "replay.getCollections"
  /\ \E ok \in BOOLEAN :
       /\ Fail(ok)
       /\ LET r == runs[n]
              call(res) == Ev("replay.getCollections", 0, res, [project |-> currentProject])
          IN  runs' = [runs EXCEPT ![n] =
                IF ok
                  THEN Advance([Enter(r, "rpCollections") EXCEPT
                         !.currentReplayCollections = projects[currentProject].rpCollections,
                         !.log = Append(@, call("ok"))])
                  ELSE OuterCatch(r, <<call("throw")>>)]
  /\ UNCHANGED <<scenario, waitingforprojectchange, store, currentProject, projects,
                 nextId, events, captures, clicks, switches>>

\* sdk.replay.createCollection(name) resumes
RunRpCreateCollection(n) ==
  /\ runs[n].pc = "replay.createCollection"
  /\ \E res \in {"ok", "undefined", "throw"} :
       /\ Fail(res = "ok")
       /\ LET r == runs[n]
              collectionData == Get(r.data.replayCollections)[r.i]
              call == Ev("replay.createCollection", r.i, res,
                         [source |-> collectionData.id, name |-> collectionData.name,
                          id |-> IF res = "ok" THEN NewId ELSE Undefined])
          IN  /\ projects' = IF res = "ok"
                               THEN [projects EXCEPT ![currentProject].rpCollections =
                                       Append(@, [id |-> NewId, name |-> collectionData.name])]
                               ELSE projects
              /\ nextId' = IF res = "ok" THEN nextId + 1 ELSE nextId
              /\ runs' = [runs EXCEPT ![n] =
                   Continue([r EXCEPT !.rpMap = MapAfterCreate(@, collectionData.id, res, call.arg.id)],
                            IF res = "ok"
                              THEN <<call>>
                              ELSE <<call, Toast("warning", "creating replay collection", r.i)>>)]
  /\ UNCHANGED <<scenario, waitingforprojectchange, store, currentProject, events,
                 captures, clicks, switches>>

\* sdk.backend.createSessionWrapper(rawBytes, url, newCollectionId) resumes:
\* the backend has created the session in the open project, or failed
RunCreateSession(n) ==
  /\ runs[n].pc = "createSessionWrapper"
  /\ \E ok \in BOOLEAN :
       /\ Fail(ok)
       /\ LET r == runs[n]
              sessionData == Get(r.data.sessions)[r.i]
              args == CreateSessionArgs(sessionData, ResolveSession(SessionMap(r), sessionData.collectionId))
              call(res) == Ev("createSessionWrapper", r.i, res, args)
          IN  /\ projects' = IF ok
                               THEN [projects EXCEPT ![currentProject].sessions =
                                       Append(@, [id |-> NewId, name |-> Undefined,
                                                  collectionId |-> args.collectionId,
                                                  active |-> Undefined, entries |-> <<>>,
                                                  raw |-> ToUint8Array(args.rawBytes),
                                                  url |-> args.url])]
                               ELSE projects
              /\ nextId' = IF ok THEN nextId + 1 ELSE nextId
              /\ runs' = [runs EXCEPT ![n] =
                   IF ~ok
                     THEN Continue(r, <<call("Error"), Toast("error", "creating session", r.i)>>)
                   ELSE IF sessionData.name # Undefined
                     THEN [r EXCEPT !.counts.replaySessions = @ + 1,
                                    !.pc = "replay.renameSession", !.sid = NewId,
                                    !.log = Append(@, call("Ok"))]
                     ELSE Continue([r EXCEPT !.counts.replaySessions = @ + 1], <<call("Ok")>>)]
  /\ UNCHANGED <<scenario, waitingforprojectchange, store, currentProject, events,
                 captures, clicks, switches>>

\* sdk.replay.renameSession(id, name) resumes
RunRenameSession(n) ==
  /\ runs[n].pc = "replay.renameSession"
  /\ \E ok \in BOOLEAN :
       /\ Fail(ok)
       /\ LET r == runs[n]
              sessionData == Get(r.data.sessions)[r.i]
              call(res) == Ev("replay.renameSession", r.i, res,
                              [id |-> r.sid, name |-> sessionData.name])
          IN  /\ projects' = [projects EXCEPT ![currentProject].sessions =
                               SessionsAfterRename(@, r.sid, sessionData.name, ok)]
              /\ runs' = [runs EXCEPT ![n] =
                   IF ok THEN Continue(r, <<call("ok")>>)
                         ELSE Continue(r, <<call("throw"), Toast("warning", "could not rename", r.i)>>)]
  /\ UNCHANGED <<scenario, waitingforprojectchange, store, currentProject, nextId,
                 events, captures, clicks, switches>>

(***************************************************************************)
(* The system.                                                             *)
(***************************************************************************)
Init ==
  /\ scenario \in Scenarios
  /\ waitingforprojectchange = FALSE
  /\ store = StoreInit
  /\ currentProject = "A"
  /\ projects = scenario.projects
  /\ nextId = 0
  /\ events = <<>>
  /\ captures = <<>>
  /\ runs = <<>>
  /\ clicks = 0
  /\ switches = 0
  /\ failures = 0

Next ==
  \/ Click
  \/ SwitchProject
  \/ HandleProjectChange
  \/ \E k \in DOMAIN captures : CapGetCurrentProject(k)
  \/ \E k \in DOMAIN captures : CapGetScopes(k)
  \/ \E k \in DOMAIN captures : CapFiltersGetAll(k)
  \/ \E k \in DOMAIN captures : CapGetSessions(k)
  \/ \E k \in DOMAIN captures : CapGraphql(k)
  \/ \E k \in DOMAIN captures : CapGetSessionByID(k)
  \/ \E k \in DOMAIN captures : CapPrepare(k)
  \/ \E n \in DOMAIN runs : RunGetStoredData(n)
  \/ \E n \in DOMAIN runs : RunGetCurrentProject(n)
  \/ \E n \in DOMAIN runs : RunFiltersGetAll(n)
  \/ \E n \in DOMAIN runs : RunCreateScope(n)
  \/ \E n \in DOMAIN runs : RunCreateFilter(n)
  \/ \E n \in DOMAIN runs : RunMrCreateCollection(n)
  \/ \E n \in DOMAIN runs : RunMrCreateRule(n)
  \/ \E n \in DOMAIN runs : RunReplayGetCollections(n)
  \/ \E n \in DOMAIN runs : RunRpCreateCollection(n)
  \/ \E n \in DOMAIN runs : RunCreateSession(n)
  \/ \E n \in DOMAIN runs : RunRenameSession(n)

Spec == Init /\ [][Next]_vars

(***************************************************************************)
(* Properties.                                                             *)
(***************************************************************************)
Started(n) == runs[n].pc # "returned"
Ended(n) == runs[n].pc \in {"done", "caught", "exited", "rejected", "returned"}
\* the positions of log whose entry is a call of op for item idx
Calls(log, op, idx) == {q \in DOMAIN log : log[q].op = op /\ log[q].idx = idx}
\* the loop of `phase` has gone past item j
Passed(r, phase, j) ==
  \/ PhaseRank(r.phase) > PhaseRank(phase)
  \/ r.phase = phase /\ j < r.i

\* C1: after one capture has armed the transfer, at most one apply run
\* starts, however many "projectChanged" events are delivered and however
\* they interleave with the first run: no two started runs consumed the same
\* arming, and a call that found the flag clear issued no call at all.
C1_AtMostOneApplyPerArm ==
  /\ \A m, n \in DOMAIN runs :
       (m # n /\ Started(m) /\ Started(n)) => runs[m].arm # runs[n].arm
  /\ \A n \in DOMAIN runs :
       Started(n) => runs[n].arm \in 1..Arms
  /\ \A n \in DOMAIN runs : ~Started(n) => runs[n].log = <<>>

\* a second event was delivered while the first run was still suspended
C1_Witness ==
  \E m, n \in DOMAIN runs :
    /\ m < n /\ Arms = 1
    /\ Started(m) /\ ~Ended(m) /\ runs[m].phase # "start"
    /\ runs[n].pc = "returned"

\* the last capture that set the flag
LastArmed ==
  CHOOSE k \in DOMAIN captures :
    /\ IsDefined(captures[k].args)
    /\ \A j \in DOMAIN captures : IsDefined(captures[j].args) => j <= k

\* C2: the flag is set only after the save has succeeded: whenever the flag
\* is set, the store holds the snapshot of the capture that set it.
C2_ArmedOnlyAfterSave ==
  waitingforprojectchange =>
    /\ Arms > 0
    /\ LET a == Get(captures[LastArmed].args)
       IN  store = prepareProjectTransfer(a.scopes, a.filters, a.sessions,
                                          a.matchReplace, a.replayCollections)

\* the id of the first collection of `current` named `name`
FirstNamed(current, name) ==
  current[CHOOSE j \in DOMAIN current :
            /\ current[j].name = name
            /\ \A h \in DOMAIN current : current[h].name = name => j <= h].id

\* the reuse rule for one kind: sources, the target's collections as read,
\* the map, the loop's phase and the name of the create call
ReuseHolds(r, sources, current, map, phase, createOp) ==
  \A j \in DOMAIN sources :
    (\E h \in DOMAIN current : current[h].name = sources[j].name) =>
      /\ Calls(r.log, createOp, j) = {}
      /\ Passed(r, phase, j) =>
           /\ sources[j].id \in DOMAIN map
           /\ map[sources[j].id] = FirstNamed(current, sources[j].name)

\* C3: a source collection (of either kind) whose name equals, exactly, the
\* name of a collection of the target is mapped to the id of the first such
\* target collection, and no create-collection call is issued for it.
C3_CollectionReuse ==
  \A n \in DOMAIN runs :
    LET r == runs[n] IN
    /\ IsDefined(r.data.matchReplace) =>
         ReuseHolds(r, Get(r.data.matchReplace).collections, r.currentCollections,
                    r.mrMap, "mrCollections", "matchReplace.createCollection")
    /\ (IsDefined(r.data.replayCollections) /\ PhaseRank(r.phase) >= PhaseRank("rpCollections")) =>
         ReuseHolds(r, Get(r.data.replayCollections), r.currentReplayCollections,
                    r.rpMap, "rpCollections", "replay.createCollection")

\* a finished run that reused the second of three target collections ("x",
\* "X", "X") for the source collection "X", and a replay collection too
C3_Witness ==
  \E n \in DOMAIN runs :
    /\ runs[n].pc = "done"
    /\ Len(runs[n].currentCollections) = 3
    /\ "old-1" \in DOMAIN runs[n].mrMap /\ runs[n].mrMap["old-1"] = "tgt-1"
    /\ "old-2" \in DOMAIN runs[n].rpMap /\ runs[n].rpMap["old-2"] = "trc-1"

\* before position p of the log, source collection src was decided (reused
\* or created) with target id tgt
DecidedBefore(log, p, reuseOp, createOp, src, tgt) ==
  \E q \in 1..(p - 1) :
    /\ \/ log[q].op = reuseOp
       \/ log[q].op = createOp /\ log[q].res = "ok"
    /\ log[q].arg.source = src
    /\ log[q].arg.id = tgt

\* before position p of the log, item j of the replay collections was
\* handled: reused, or its create call issued and ended
HandledBefore(log, p, j) ==
  \E q \in 1..(p - 1) :
    /\ log[q].op \in {"rp.reuse", "replay.createCollection"}
    /\ log[q].idx = j

\* C4: every create-rule call comes after the create-or-reuse decision of
\* the collection its rule maps to, and every create-session call comes
\* after all replay collections have been reconciled.
C4_CollectionsBeforeUse ==
  \A n \in DOMAIN runs :
    LET r == runs[n] IN
    \A p \in DOMAIN r.log :
      /\ r.log[p].op = "matchReplace.createRule" =>
           DecidedBefore(r.log, p, "mr.reuse", "matchReplace.createCollection",
                         Get(r.data.matchReplace).rules[r.log[p].idx].collectionId,
                         r.log[p].arg.collectionId)
      /\ r.log[p].op = "createSessionWrapper" =>
           /\ IsDefined(r.data.replayCollections) =>
                \A j \in DOMAIN Get(r.data.replayCollections) :
                  HandledBefore(r.log, p, j)
           /\ r.log[p].arg.collectionId # Undefined =>
                DecidedBefore(r.log, p, "rp.reuse", "replay.createCollection",
                              Get(r.data.sessions)[r.log[p].idx].collectionId,
                              r.log[p].arg.collectionId)

\* a finished run that created a match/replace collection and then a rule
\* in it, and a replay collection and then a session in it
C4_Witness ==
  \E n \in DOMAIN runs :
    LET log == runs[n].log IN
    /\ runs[n].pc = "done"
    /\ \E c, p \in DOMAIN log :
         /\ log[c].op = "matchReplace.createCollection" /\ log[c].res = "ok"
         /\ log[p].op = "matchReplace.createRule" /\ log[p].res = "ok"
         /\ log[p].arg.collectionId = log[c].arg.id
    /\ \E c, p \in DOMAIN log :
         /\ log[c].op = "replay.createCollection" /\ log[c].res = "ok"
         /\ log[p].op = "createSessionWrapper" /\ log[p].res = "Ok"
         /\ log[p].arg.collectionId = log[c].arg.id

\* snapshot filter f has an alias that a filter of the target, as read at
\* the start of the run, has too
AliasTaken(f, current) ==
  /\ f.alias # Undefined
  /\ \E h \in DOMAIN current : current[h].alias = f.alias

\* C5: no create-filter call is issued for a snapshot filter whose alias is
\* defined and equals the alias of a filter of the target; a filter without
\* an alias that the loop has gone past got its create call; and a run that
\* reaches its summary reports as many filters as are not taken.
C5_FilterAliasDedup ==
  \A n \in DOMAIN runs :
    LET r == runs[n] IN
    IsDefined(r.data.filters) =>
      LET filters == Get(r.data.filters) IN
      /\ \A j \in DOMAIN filters :
           /\ (r.phase # "start" /\ AliasTaken(filters[j], r.currentFilters)) =>
                Calls(r.log, "filters.create", j) = {}
           /\ (filters[j].alias = Undefined /\ Passed(r, "filters", j)) =>
                Calls(r.log, "filters.create", j) # {}
      /\ r.pc = "done" =>
           r.counts.filters =
             Cardinality({j \in DOMAIN filters : ~AliasTaken(filters[j], r.currentFilters)})

\* a finished run over filters [a, none] into a target holding alias a:
\* one create (the second filter), reported as 1
C5_Witness ==
  \E n \in DOMAIN runs :
    LET r == runs[n] IN
    /\ r.pc = "done"
    /\ IsDefined(r.data.filters) /\ Len(Get(r.data.filters)) = 2
    /\ AliasTaken(Get(r.data.filters)[1], r.currentFilters)
    /\ Calls(r.log, "filters.create", 1) = {}
    /\ Calls(r.log, "filters.create", 2) # {}
    /\ r.counts.filters = 1

\* rule's collectionId is undefined, empty or has no entry in the map
Unresolved(rule, map) ==
  \/ rule.collectionId = Undefined
  \/ rule.collectionId = ""
  \/ rule.collectionId \notin DOMAIN map

\* C6: a rule whose collectionId is undefined, empty or absent from the
\* match/replace map is skipped with a warning: no create-rule call is
\* issued for it, and mrRules counts the created rules only.
C6_UnresolvedRuleSkipped ==
  \A n \in DOMAIN runs :
    LET r == runs[n] IN
    /\ IsDefined(r.data.matchReplace) =>
         \A j \in DOMAIN Get(r.data.matchReplace).rules :
           /\ PhaseRank(r.phase) < PhaseRank("mrRules") =>
                Calls(r.log, "matchReplace.createRule", j) = {}
           /\ (PhaseRank(r.phase) >= PhaseRank("mrRules")
                 /\ Unresolved(Get(r.data.matchReplace).rules[j], r.mrMap)) =>
                /\ Calls(r.log, "matchReplace.createRule", j) = {}
                /\ Passed(r, "mrRules", j) =>
                     \E q \in DOMAIN r.log :
                       r.log[q] = Toast("warning", "Skipping rule", j)
    /\ r.counts.mrRules =
         Cardinality({q \in DOMAIN r.log :
                        r.log[q].op = "matchReplace.createRule" /\ r.log[q].res = "ok"})

\* a finished run in which the collection of rule 1 failed to be created:
\* rule 1 was skipped like rules 3, 4 and 5, and only rule 2 was created
C6_Witness ==
  \E n \in DOMAIN runs :
    LET r == runs[n] IN
    /\ r.pc = "done"
    /\ IsDefined(r.data.matchReplace) /\ Len(Get(r.data.matchReplace).rules) = 5
    /\ \E q \in DOMAIN r.log :
         /\ r.log[q].op = "matchReplace.createCollection"
         /\ r.log[q].res # "ok"
         /\ r.log[q].arg.source = "old-1"
    /\ \A j \in {1, 3, 4, 5} :
         /\ Calls(r.log, "matchReplace.createRule", j) = {}
         /\ \E q \in DOMAIN r.log : r.log[q] = Toast("warning", "Skipping rule", j)
    /\ r.counts.mrRules = 1

\* C7: a session whose collectionId has no entry in the replay map is
\* skipped: no create-session call is issued for it.
C7_UnmappedSessionSkipped ==
  \A n \in DOMAIN runs :
    LET r == runs[n] IN
    (IsDefined(r.data.sessions) /\ PhaseRank(r.phase) >= PhaseRank("sessions")) =>
      \A j \in DOMAIN Get(r.data.sessions) :
        (/\ Get(r.data.sessions)[j].collectionId # Undefined
         /\ Get(r.data.sessions)[j].collectionId \notin DOMAIN r.rpMap) =>
          Calls(r.log, "createSessionWrapper", j) = {}

\* C8: a failing host call never aborts a run that has begun its steps:
\* such a run ends only by reaching the summary.
C8_FailureNeverAborts ==
  \A n \in DOMAIN runs :
    (Ended(n) /\ runs[n].phase # "start") => runs[n].pc = "done"

\* C9: no failure of an external call escapes handleProjectChange or
\* onDuplicateProjectClick: no handler ends rejected.
C9_NoErrorEscapes ==
  /\ \A n \in DOMAIN runs : runs[n].pc # "rejected"
  /\ \A k \in DOMAIN captures : captures[k].pc # "rejected"

\* C10: every create-rule call carries the stored name, query and section
\* of its rule, the collection id resolved through the map, and the rule's
\* stored sources.
C10_RuleCreatedAsStored ==
  \A n \in DOMAIN runs :
    LET r == runs[n] IN
    \A p \in DOMAIN r.log :
      r.log[p].op = "matchReplace.createRule" =>
        LET rule == Get(r.data.matchReplace).rules[r.log[p].idx] IN
        r.log[p].arg = [collectionId |-> r.mrMap[rule.collectionId],
                        name |-> rule.name, query |-> rule.query,
                        section |-> rule.section, sources |-> rule.sources]

\* the create calls of a run
CreateOps ==
  {"scopes.createScope", "filters.create", "matchReplace.createCollection",
   "matchReplace.createRule", "replay.createCollection", "createSessionWrapper"}

\* C11: a run that read an empty store (no component was ever saved) has
\* reported an error, issues no create call and shows no success summary.
C11_EmptyStoreReported ==
  \A n \in DOMAIN runs :
    LET r == runs[n] IN
    (Started(n) /\ r.pc # "getStoredData" /\ r.data = StoreInit) =>
      /\ \E q \in DOMAIN r.log : r.log[q].op = "toast" /\ r.log[q].res = "error"
                                   /\ r.log[q].arg.about = "stored data"
      /\ \A q \in DOMAIN r.log :
           /\ r.log[q].op \notin CreateOps
           /\ r.log[q] # Toast("success", "Transfer complete", 0)

\* capture k's save has taken effect in the backend
Saved(k) ==
  \E q \in DOMAIN captures[k].log :
    captures[k].log[q].op = "prepareProjectTransfer" /\ captures[k].log[q].res = "Ok"

\* C12: the store is single-slot, last-write-wins: what getStoredData
\* returns is, component by component, what the most recent save was given,
\* and all undefined before the first save.
C12_LastWriteWins ==
  LET value == getStoredData(store).value IN
  IF \E k \in DOMAIN captures : Saved(k)
    THEN LET last == CHOOSE k \in DOMAIN captures :
                       Saved(k) /\ \A j \in DOMAIN captures : Saved(j) => j <= k
             a == Get(captures[last].args)
         IN  /\ getStoredData(store).kind = "Ok"
             /\ value.scopes = <<a.scopes>>
             /\ value.filters = <<a.filters>>
             /\ value.sessions = <<a.sessions>>
             /\ value.matchReplace = <<a.matchReplace>>
             /\ value.replayCollections = <<a.replayCollections>>
    ELSE value = [scopes |-> <<>>, filters |-> <<>>, sessions |-> <<>>,
                  matchReplace |-> <<>>, replayCollections |-> <<>>]

\* two saves that differ in every component but the sessions, the second
\* one in the store
C12_Witness ==
  \E j, k \in DOMAIN captures :
    /\ j < k /\ Saved(j) /\ Saved(k)
    /\ LET a == Get(captures[j].args)
           b == Get(captures[k].args)
       IN  /\ a.scopes # b.scopes /\ a.filters # b.filters
           /\ a.matchReplace # b.matchReplace
           /\ a.replayCollections # b.replayCollections
           /\ store.matchReplace = <<b.matchReplace>>

\* the request a session is captured with: its active entry's, else that of
\* the first entry that has one, else none
ExpectedRequest(session) ==
  IF session.active # Undefined THEN session.active
  ELSE IF \E h \in DOMAIN session.entries : session.entries[h] # Undefined
    THEN session.entries[CHOOSE h \in DOMAIN session.entries :
           /\ session.entries[h] # Undefined
           /\ \A g \in DOMAIN session.entries :
                session.entries[g] # Undefined => h <= g]
  ELSE Undefined

\* C13: in a capture, the request fetched for a session is its active
\* entry's request, else the request of its first entry that has one; a
\* session with no request on any entry gets a warning and no fetch, is not
\* put in the snapshot (which holds the fetched sessions only), the loop
\* goes on to the next session, and a run that loads the snapshot issues
\* create-session calls for the sessions of the snapshot only.
C13_SessionRequestResolution ==
  \A k \in DOMAIN captures :
    LET c == captures[k] IN
    /\ \A j \in DOMAIN c.sessions :
         LET expected == ExpectedRequest(c.sessions[j])
             queried == \E q \in Calls(c.log, "graphql", j) : c.log[q].res = "ok"
         IN  /\ \A q \in Calls(c.log, "getSessionByIDWrapper", j) :
                  /\ expected # Undefined
                  /\ c.log[q].arg.requestId = expected
             /\ (j < c.i /\ queried /\ expected # Undefined) =>
                  Calls(c.log, "getSessionByIDWrapper", j) # {}
             /\ (j < c.i /\ queried /\ expected = Undefined) =>
                  /\ \E q \in Calls(c.log, "toast", j) : c.log[q].res = "warning"
                  /\ Calls(c.log, "push", j) = {}
    /\ Len(c.sessionsData) =
         Cardinality({q \in DOMAIN c.log : c.log[q].op = "push"})
    /\ \A n \in DOMAIN runs :
         runs[n].data.sessions = <<c.sessionsData>> =>
           \A q \in DOMAIN runs[n].log :
             runs[n].log[q].op = "createSessionWrapper" =>
               /\ runs[n].log[q].idx \in DOMAIN c.sessionsData
               /\ runs[n].log[q].arg.rawBytes = c.sessionsData[runs[n].log[q].idx].rawBytes
               /\ runs[n].log[q].arg.url = c.sessionsData[runs[n].log[q].idx].url

\* a capture of three sessions: the first fetched by its active entry's
\* request, the second by its later entry's, the third left out with a
\* warning; and a run that created the two sessions of the snapshot
C13_Witness ==
  /\ \E k \in DOMAIN captures :
       LET c == captures[k] IN
       /\ c.pc = "done" /\ Len(c.sessions) = 3 /\ Len(c.sessionsData) = 2
       /\ \E q \in Calls(c.log, "getSessionByIDWrapper", 1) : c.log[q].arg.requestId = "req-1"
       /\ \E q \in Calls(c.log, "getSessionByIDWrapper", 2) : c.log[q].arg.requestId = "req-2"
       /\ \E q \in Calls(c.log, "toast", 3) : c.log[q].res = "warning"
  /\ \E n \in DOMAIN runs :
       /\ runs[n].pc = "done"
       /\ Cardinality({q \in DOMAIN runs[n].log :
                         runs[n].log[q].op = "createSessionWrapper"}) = 2

\* the create calls of op that succeeded in run r
Succeeded(r, op, res) ==
  Cardinality({q \in DOMAIN r.log : r.log[q].op = op /\ r.log[q].res = res})

\* the counts of run r equal its successful create calls, by category
CountsExact(r, counts) ==
  /\ counts.scopes = Succeeded(r, "scopes.createScope", "ok")
  /\ counts.filters = Succeeded(r, "filters.create", "ok")
  /\ counts.mrRules = Succeeded(r, "matchReplace.createRule", "ok")
  /\ counts.replaySessions = Succeeded(r, "createSessionWrapper", "Ok")

\* C14: every run that got past its precondition checks (the stored data
\* and the current project were read) and has ended has surfaced its counts,
\* and the counts surfaced equal the create calls that succeeded.
C14_CountsSurfaced ==
  \A n \in DOMAIN runs :
    LET r == runs[n] IN
    (Ended(n) /\ \E q \in DOMAIN r.log :
                   r.log[q].op = "getCurrentProject" /\ r.log[q].res = "Ok") =>
      \E q \in DOMAIN r.log :
        /\ r.log[q].op = "counts"
        /\ CountsExact(r, r.log[q].arg)

\* every id of map is the id of a collection of `current`
Holds(current, map) ==
  \A src \in DOMAIN map : \E h \in DOMAIN current : current[h].id = map[src]

\* run m applied a snapshot completely and with no failed call
AppliedCleanly(m) ==
  /\ runs[m].pc = "done"
  /\ \A q \in DOMAIN runs[m].log :
       runs[m].log[q].op \in CreateOps => runs[m].log[q].res \in {"ok", "Ok"}

\* C15: a second run n that applies the snapshot a first run m applied
\* cleanly, to a target that holds what m created or reused, issues no
\* create-collection call of either kind and no create-filter call for a
\* filter with an alias, and ends with the maps of m.
C15_ReapplyIdempotent ==
  \A m, n \in DOMAIN runs :
    LET first == runs[m]
        second == runs[n]
    IN
    (/\ m < n /\ AppliedCleanly(m)
     /\ second.data = first.data /\ second.name = first.name
     /\ PhaseRank(second.phase) >= PhaseRank("scopes")
     /\ Holds(second.currentCollections, first.mrMap)
     /\ \A q \in DOMAIN first.log :
          first.log[q].op = "filters.create" =>
            \E h \in DOMAIN second.currentFilters :
              second.currentFilters[h] = first.log[q].arg) =>
      /\ \A q \in DOMAIN second.log :
           /\ second.log[q].op # "matchReplace.createCollection"
           /\ second.log[q].op = "filters.create" =>
                second.log[q].arg.alias = Undefined
      /\ (PhaseRank(second.phase) >= PhaseRank("rpCollections")
            /\ Holds(second.currentReplayCollections, first.rpMap)) =>
           \A q \in DOMAIN second.log : second.log[q].op # "replay.createCollection"
      /\ (second.pc = "done"
            /\ Holds(second.currentReplayCollections, first.rpMap)) =>
           /\ second.mrMap = first.mrMap
           /\ second.rpMap = first.rpMap

\* C16: the store changes only through save: a step that changes the store
\* is the resumption of a capture's prepareProjectTransfer call, so no step
\* of an apply run, whether it succeeds, fails in part or aborts, modifies
\* or clears it.
C16_StoreChangesOnlyBySave ==
  [][store' # store =>
       /\ runs' = runs
       /\ \E k \in DOMAIN captures :
            /\ captures[k].pc = "prepareProjectTransfer"
            /\ captures'[k].pc = "done"
            /\ store' = [c \in DOMAIN store |-> <<Get(captures[k].args)[c]>>]]_vars

\* a run created a scope and then aborted in the outer catch, and the store
\* still holds the snapshot the run loaded
C16_Witness ==
  /\ IsDefined(store.scopes)
  /\ \E n \in DOMAIN runs :
       /\ runs[n].pc = "caught"
       /\ runs[n].data = store
       /\ Succeeded(runs[n], "scopes.createScope", "ok") = 1

\* C17: the delivery of a "projectChanged" event while the flag is false is
\* a no-op: the call returns at once having issued no call and shown no
\* toast, the flag stays false, the store, the projects and every other
\* handler are left as they were, and the call never resumes.
C17_UnarmedNotificationNoOp ==
  /\ [][(events # <<>> /\ events' = Tail(events) /\ waitingforprojectchange = FALSE) =>
          /\ waitingforprojectchange' = FALSE
          /\ store' = store /\ projects' = projects /\ nextId' = nextId
          /\ captures' = captures
          /\ Len(runs') = Len(runs) + 1
          /\ \A n \in DOMAIN runs : runs'[n] = runs[n]
          /\ runs'[Len(runs')].pc = "returned"
          /\ runs'[Len(runs')].log = <<>>]_vars
  /\ [][\A n \in DOMAIN runs : runs[n].pc = "returned" => runs'[n] = runs[n]]_vars

\* an event was delivered before any capture armed the transfer, and later
\* a capture saved a snapshot: the early call did nothing
C17_Witness ==
  /\ Arms > 0 /\ IsDefined(store.scopes)
  /\ runs # <<>> /\ runs[1].pc = "returned" /\ runs[1].arm = 0

\* the map has an entry for a source id only if the log has the reuse or
\* the successful creation that set it
MapJustified(r, map, reuseOp, createOp) ==
  \A src \in DOMAIN map :
    \E q \in DOMAIN r.log :
      /\ \/ r.log[q].op = reuseOp
         \/ r.log[q].op = createOp /\ r.log[q].res = "ok"
      /\ r.log[q].arg.source = src
      /\ r.log[q].arg.id = map[src]

\* a failed create call of one kind: no entry, a warning, and on to the next
FailedCreateSkipped(r, map, phase, createOp) ==
  \A q \in DOMAIN r.log :
    (r.log[q].op = createOp /\ r.log[q].res # "ok") =>
      /\ r.log[q].arg.source \notin DOMAIN map
      /\ q < Len(r.log)
      /\ r.log[q + 1].op = "toast" /\ r.log[q + 1].res = "warning"
      /\ r.log[q + 1].idx = r.log[q].idx
      /\ Passed(r, phase, r.log[q].idx)

\* C18: when a create-collection call of either kind fails (throws, or
\* returns no collection), no map entry is added for its source id, a
\* warning is shown and the loop goes on to the next source collection; a
\* map has an entry only for a collection that was reused or created.
C18_FailedCreateNoMapEntry ==
  \A n \in DOMAIN runs :
    LET r == runs[n] IN
    /\ FailedCreateSkipped(r, r.mrMap, "mrCollections", "matchReplace.createCollection")
    /\ FailedCreateSkipped(r, r.rpMap, "rpCollections", "replay.createCollection")
    /\ MapJustified(r, r.mrMap, "mr.reuse", "matchReplace.createCollection")
    /\ MapJustified(r, r.rpMap, "rp.reuse", "replay.createCollection")

\* the creation of the first of two match/replace collections failed and
\* the second was created all the same; the run reached its summary
C18_Witness ==
  \E n \in DOMAIN runs :
    LET r == runs[n] IN
    /\ r.pc = "done"
    /\ \E q \in Calls(r.log, "matchReplace.createCollection", 1) : r.log[q].res # "ok"
    /\ \E q \in Calls(r.log, "matchReplace.createCollection", 2) : r.log[q].res = "ok"
    /\ DOMAIN r.mrMap = {"old-2"}

\* C19: a rename call is issued only right after the successful create call
\* of the same session; when it fails, the created session is still in the
\* project it was created in, it is counted in replaySessions, a warning is
\* shown and the loop is past that session.
C19_RenameFailureKeepsSession ==
  \A n \in DOMAIN runs :
    LET r == runs[n] IN
    /\ r.counts.replaySessions = Succeeded(r, "createSessionWrapper", "Ok")
    /\ r.pc = "replay.renameSession" =>
         /\ r.log[Len(r.log)].op = "createSessionWrapper"
         /\ r.log[Len(r.log)].res = "Ok"
         /\ r.log[Len(r.log)].idx = r.i
    /\ \A q \in DOMAIN r.log :
         r.log[q].op = "replay.renameSession" =>
           /\ q > 1
           /\ r.log[q - 1].op = "createSessionWrapper"
           /\ r.log[q - 1].res = "Ok"
           /\ r.log[q - 1].idx = r.log[q].idx
           /\ r.log[q].res = "throw" =>
                /\ \E p \in Projects : \E h \in DOMAIN projects[p].sessions :
                     projects[p].sessions[h].id = r.log[q].arg.id
                /\ q < Len(r.log)
                /\ r.log[q + 1] = Toast("warning", "could not rename", r.log[q].idx)
                /\ Passed(r, "sessions", r.log[q].idx)

\* the rename of the first session failed; the run went on, created the
\* second session too and reported two sessions
C19_Witness ==
  \E n \in DOMAIN runs :
    LET r == runs[n] IN
    /\ r.pc = "done"
    /\ \E q \in Calls(r.log, "replay.renameSession", 1) : r.log[q].res = "throw"
    /\ \E q \in Calls(r.log, "createSessionWrapper", 2) : r.log[q].res = "Ok"
    /\ r.counts.replaySessions = 2

\* C20: a session of the snapshot whose collectionId is absent is not
\* skipped: once the sessions loop is past it, a create-session call was
\* issued for it, with no collection id, and the session that call created
\* is in no collection.
C20_UncategorizedSessionCreated ==
  \A n \in DOMAIN runs :
    LET r == runs[n] IN
    IsDefined(r.data.sessions) =>
      \A j \in DOMAIN Get(r.data.sessions) :
        Get(r.data.sessions)[j].collectionId = Undefined =>
          /\ Passed(r, "sessions", j) => Calls(r.log, "createSessionWrapper", j) # {}
          /\ \A q \in Calls(r.log, "createSessionWrapper", j) :
               /\ r.log[q].arg.collectionId = Undefined
               /\ r.log[q].arg.rawBytes = Get(r.data.sessions)[j].rawBytes
               /\ r.log[q].arg.url = Get(r.data.sessions)[j].url
          /\ \A q \in Calls(r.log, "replay.renameSession", j) :
               \A p \in Projects : \A h \in DOMAIN projects[p].sessions :
                 projects[p].sessions[h].id = r.log[q].arg.id =>
                   projects[p].sessions[h].collectionId = Undefined

\* the second session of the snapshot has no collectionId; it was created
\* in no collection after replay collections had been mapped, and renamed
C20_Witness ==
  \E n \in DOMAIN runs :
    LET r == runs[n] IN
    /\ r.pc = "done" /\ DOMAIN r.rpMap # {}
    /\ IsDefined(r.data.sessions) /\ Len(Get(r.data.sessions)) = 2
    /\ Get(r.data.sessions)[2].collectionId = Undefined
    /\ \E q \in Calls(r.log, "createSessionWrapper", 2) :
         r.log[q].res = "Ok" /\ r.log[q].arg.collectionId = Undefined
    /\ \E q \in Calls(r.log, "replay.renameSession", 2) :
         \E h \in DOMAIN projects[r.name].sessions :
           /\ projects[r.name].sessions[h].id = r.log[q].arg.id
           /\ projects[r.name].sessions[h].collectionId = Undefined

\* the values of a map
Range(map) == {map[k] : k \in DOMAIN map}

\* the ids of the target's collections of one kind, as a run knows them:
\* those it read and those its create calls returned
TargetIds(r, current, createOp) ==
  {current[h].id : h \in DOMAIN current}
    \cup {r.log[q].arg.id : q \in {q \in DOMAIN r.log :
                                    r.log[q].op = createOp /\ r.log[q].res = "ok"}}

\* C21: the collection id passed to a create-rule call is a value of the
\* match/replace map of the same run and the id of a match/replace
\* collection of the target; the collection id passed to a create-session
\* call is absent, or a value of the replay map of the same run and the id
\* of a replay collection of the target.  A session whose collectionId is
\* also a key of the match/replace map is placed through the replay map.
C21_IdsThroughOwnMap ==
  \A n \in DOMAIN runs :
    LET r == runs[n] IN
    \A q \in DOMAIN r.log :
      /\ r.log[q].op = "matchReplace.createRule" =>
           /\ r.log[q].arg.collectionId \in Range(r.mrMap)
           /\ r.log[q].arg.collectionId \in
                TargetIds(r, r.currentCollections, "matchReplace.createCollection")
      /\ r.log[q].op = "createSessionWrapper" =>
           \/ r.log[q].arg.collectionId = Undefined
           \/ /\ r.log[q].arg.collectionId \in Range(r.rpMap)
              /\ r.log[q].arg.collectionId \in
                   TargetIds(r, r.currentReplayCollections, "replay.createCollection")

\* a finished run whose two maps give the source id "old-2" different
\* target ids; a rule was created through the one, a session through the
\* other
C21_Witness ==
  \E n \in DOMAIN runs :
    LET r == runs[n] IN
    /\ r.pc = "done"
    /\ "old-2" \in DOMAIN r.mrMap /\ "old-2" \in DOMAIN r.rpMap
    /\ r.mrMap["old-2"] # r.rpMap["old-2"]
    /\ \E q \in DOMAIN r.log :
         /\ r.log[q].op = "matchReplace.createRule"
         /\ r.log[q].arg.collectionId = r.mrMap["old-2"]
    /\ \E q \in DOMAIN r.log :
         /\ r.log[q].op = "createSessionWrapper"
         /\ r.log[q].arg.collectionId = r.rpMap["old-2"]

\* the apply runs that have started and not ended
InFlight == {n \in DOMAIN runs : Started(n) /\ ~Ended(n)}

\* C22: at any time at most one apply run is in flight.
C22_AtMostOneApplyInFlight ==
  Cardinality(InFlight) <= 1

\* the host reads of a capture that fill the snapshot
SnapshotReads == {"scopes.getScopes", "filters.getAll", "replay.getSessions"}

\* C23: every snapshot written to the store was read from one project, the
\* one that was open at the click: each of the capture's reads was served
\* by that project.
C23_SnapshotCoherent ==
  \A k \in DOMAIN captures :
    LET c == captures[k] IN
    Saved(k) =>
      \A q \in DOMAIN c.log :
        c.log[q].op \in SnapshotReads => c.log[q].arg.project = c.clickedIn

\* C24: within one run and one kind of collection, no two create-collection
\* calls are issued for the same name.
C24_OneCreatePerName ==
  \A n \in DOMAIN runs :
    LET r == runs[n] IN
    \A p, q \in DOMAIN r.log :
      (/\ p # q
       /\ r.log[p].op \in {"matchReplace.createCollection", "replay.createCollection"}
       /\ r.log[q].op = r.log[p].op) =>
        r.log[p].arg.name # r.log[q].arg.name

====
